---- MODULE Spec2Model ----
(***************************************************************************)
(* Model of the MCP search server: the middleware chain registered in      *)
(* main.py (BearerAuthMiddleware, RequestLoggingMiddleware), the tool      *)
(* handlers and the Serper gateway functions of search/serper.py.          *)
(*                                                                         *)
(* Python strings are sequences of one-character strings, so that          *)
(* startswith, slicing and lower() are computed.  Optional values are      *)
(* None == <<>> or Some(v) == <<v>>.  Python dicts are functions whose     *)
(* DOMAIN is the set of keys present.                                      *)
(***************************************************************************)
EXTENDS Integers, Sequences, FiniteSets, TLC

VARIABLES
    API_KEY,         \* config.API_KEY, caller-facing credential
    SERPER_API_KEY,  \* config.SERPER_API_KEY, upstream credential
    pc,              \* position of the call: idle, down, net, up, done
    context,         \* MiddlewareContext of the call: method, tool name
    transport,       \* HTTP request context seen by get_http_headers()
    chain,           \* hooks wrapped around the handler, outermost first
    idx,             \* next hook of the chain to enter
    frames,          \* logging hooks entered and awaiting call_next
    clock,           \* time.perf_counter(), in milliseconds
    produced,        \* outcome as produced by the innermost stage that ended the call
    result,          \* outcome travelling back through the chain
    response,        \* outcome delivered to the caller
    log,             \* lines written to the "mcp_search" logger for this call
    trace,           \* events of this call, in order
    outbound,        \* outbound HTTP requests made by this call
    arguments,       \* arguments the tool function was called with
    reply            \* what client.post ended with

vars == <<API_KEY, SERPER_API_KEY, pc, context, transport, chain, idx, frames,
          clock, produced, result, response, log, trace, outbound, arguments, reply>>

-----------------------------------------------------------------------------
(* Bounds *)

MaxClock == 2      \* perf_counter values 0..MaxClock
MaxPage == 3       \* page numbers 0..MaxPage
MaxOrganic == 2    \* number of organic results in a provider response

-----------------------------------------------------------------------------
(* Python values *)

None == <<>>
Some(v) == <<v>>

\* the test written "is not None"
TruthyNotNone(o) == o # None

\* Python truthiness of an optional string: None and "" are falsy.
Truthy(o) == o # None /\ o[1] # <<>>

\* a or b
PyOr(a, b) == IF Truthy(a) THEN a ELSE b

\* dict.get(key) with default None
DictGet(d, k) == IF k \in DOMAIN d THEN Some(d[k]) ELSE None

\* the scheme test left out
StartsWithAnything(s, p) == TRUE

\* s.startswith(p)
StartsWith(s, p) == Len(s) >= Len(p) /\ SubSeq(s, 1, Len(p)) = p

\* s[n:]
SliceFrom(s, n) == SubSeq(s, n + 1, Len(s))

LowerChar(c) ==
    CASE c = "U" -> "u"
      [] c = "S" -> "s"
      [] c = "E" -> "e"
      [] c = "N" -> "n"
      [] c = "C" -> "c"
      [] c = "Z" -> "z"
      [] OTHER -> c

\* the value sent as given
LowerOmitted(s) == s

\* s.lower()
Lower(s) == [i \in 1..Len(s) |-> LowerChar(s[i])]

-----------------------------------------------------------------------------
(* Input domains *)

BearerPrefix == <<"B", "e", "a", "r", "e", "r", " ">>

K1 == <<"k", "1">>
K2 == <<"k", "2">>

\* MCP_API_KEY values: unset (empty) or one of two secrets
ApiKeys == {<<>>, K1, K2}

\* SERPER_API_KEY values: unset or a key
SerperKeys == {<<>>, <<"s", "k">>}

\* Values of the Authorization header a client may send
HeaderValues ==
    { <<>>,                                  \* "Authorization:" with empty value
      BearerPrefix \o K1,                    \* "Bearer k1"
      BearerPrefix \o K2,                    \* "Bearer k2"
      BearerPrefix,                          \* "Bearer " with empty token
      <<"B", "e", "a", "r", "e", "r">>,      \* "Bearer" without the space
      <<"b", "e", "a", "r", "e", "r", " ">> \o K1,   \* "bearer k1"
      <<"T", "o", "k", "e", "n", " ", "x">>, \* "Token x"
      K1 }                                   \* "k1", the bare secret

NoHeaders == <<>>     \* the empty dict
OtherHeaders == ("user-agent" :> <<"u", "a">>)

\* What get_http_headers() finds: no HTTP request (it raises), or a dict of
\* lower-cased header names.
Transports ==
    {[http |-> FALSE, headers |-> NoHeaders]}
    \cup {[http |-> TRUE, headers |-> NoHeaders]}
    \cup {[http |-> TRUE, headers |-> OtherHeaders]}
    \cup {[http |-> TRUE, headers |-> OtherHeaders @@ ("authorization" :> h)] : h \in HeaderValues}

Methods == {"initialize", "tools/list", "tools/call", "ping"}
Tools == {"search_web", "extract_webpage"}

Contexts ==
    {[method |-> m, tool |-> "none"] : m \in Methods \ {"tools/call"}}
    \cup {[method |-> "tools/call", tool |-> t] : t \in Tools}

-----------------------------------------------------------------------------
(* Outcomes: a returned value or a raised exception *)

NoOutcome == [ok |-> TRUE, type |-> "none", code |-> None, status |-> None,
              message |-> <<>>, value |-> <<>>]

Return(v) == [ok |-> TRUE, type |-> "return", code |-> None, status |-> None,
              message |-> <<>>, value |-> v]

\* McpError(ErrorData(code=c, message=m))
McpError(c, m) == [ok |-> FALSE, type |-> "McpError", code |-> Some(c),
                   status |-> None, message |-> <<m>>, value |-> <<>>]

\* SerperAPIError(message, status_code)
SerperAPIError(message, status_code) ==
    [ok |-> FALSE, type |-> "SerperAPIError", code |-> None,
     status |-> status_code, message |-> message, value |-> <<>>]

\* Any other exception raised by the framework's own handlers
OtherError(t, m) == [ok |-> FALSE, type |-> t, code |-> None, status |-> None,
                     message |-> <<m>>, value |-> <<>>]

-----------------------------------------------------------------------------
(* Log lines.  A line is the logger level, the fixed and interpolated text  *)
(* parts of the f-string, and the interpolated duration_ms (None when the   *)
(* line carries no duration).  "[ok] " and "[fail] " stand for the check    *)
(* mark and the cross that open the lines.                                  *)

Line(level, text, ms) == [level |-> level, text |-> text, ms |-> ms]

AuthErrorCode == -32001

MsgMissing == "Authentication required: Missing Authorization header"
MsgMalformed == "Authentication required: Invalid Authorization header format. Expected 'Bearer <token>'"
MsgInvalid == "Authentication failed: Invalid API key"

-----------------------------------------------------------------------------
(* BearerAuthMiddleware *)

\* _get_auth_header: the lookup is guarded by try/except and by "if headers"
get_auth_header(t) ==
    IF ~t.http THEN None
    ELSE IF DOMAIN t.headers # {}
         THEN PyOr(DictGet(t.headers, "authorization"), DictGet(t.headers, "Authorization"))
         ELSE None

\* the rejection of a wrong token quoting the expected one
on_request_leaky(api_key, method, auth_header) ==
    IF method = "initialize"
    THEN [verdict |-> "exempt", next |-> TRUE, error |-> NoOutcome, lines |-> <<>>]
    ELSE IF ~Truthy(auth_header)
    THEN [verdict |-> "missing", next |-> FALSE,
          error |-> McpError(AuthErrorCode, MsgMissing),
          lines |-> <<Line("warning", <<"[fail] Authentication failed for ", method,
                                        ": Missing Authorization header">>, None)>>]
    ELSE IF ~StartsWith(auth_header[1], BearerPrefix)
    THEN [verdict |-> "malformed", next |-> FALSE,
          error |-> McpError(AuthErrorCode, MsgMalformed),
          lines |-> <<Line("warning", <<"[fail] Authentication failed for ", method,
                                        ": Invalid Authorization header format">>, None)>>]
    ELSE IF SliceFrom(auth_header[1], 7) # api_key
    THEN [verdict |-> "invalid", next |-> FALSE,
          error |-> [McpError(AuthErrorCode, MsgInvalid) EXCEPT
                        !.message = <<MsgInvalid, ", expected ">> \o api_key],
          lines |-> <<Line("warning", <<"[fail] Authentication failed for ", method,
                                        ": Invalid API key">>, None)>>]
    ELSE [verdict |-> "pass", next |-> TRUE, error |-> NoOutcome,
          lines |-> <<Line("debug", <<"[ok] Authentication successful for ", method>>, None)>>]

\* on_request up to its call_next: the decision taken for a call.
\* next = TRUE means "return await call_next(context)".
on_request(api_key, method, auth_header) ==
    IF method = "initialize"
    THEN [verdict |-> "exempt", next |-> TRUE, error |-> NoOutcome, lines |-> <<>>]
    ELSE IF ~Truthy(auth_header)
    THEN [verdict |-> "missing", next |-> FALSE,
          error |-> McpError(AuthErrorCode, MsgMissing),
          lines |-> <<Line("warning", <<"[fail] Authentication failed for ", method,
                                        ": Missing Authorization header">>, None)>>]
    ELSE IF ~StartsWith(auth_header[1], BearerPrefix)
    THEN [verdict |-> "malformed", next |-> FALSE,
          error |-> McpError(AuthErrorCode, MsgMalformed),
          lines |-> <<Line("warning", <<"[fail] Authentication failed for ", method,
                                        ": Invalid Authorization header format">>, None)>>]
    ELSE IF SliceFrom(auth_header[1], 7) # api_key
    THEN [verdict |-> "invalid", next |-> FALSE,
          error |-> McpError(AuthErrorCode, MsgInvalid),
          lines |-> <<Line("warning", <<"[fail] Authentication failed for ", method,
                                        ": Invalid API key">>, None)>>]
    ELSE [verdict |-> "pass", next |-> TRUE, error |-> NoOutcome,
          lines |-> <<Line("debug", <<"[ok] Authentication successful for ", method>>, None)>>]

-----------------------------------------------------------------------------
(* Middleware registration and dispatch *)

\* the stages registered in the other order
MiddlewareListLoggingFirst(api_key) ==
    IF api_key # <<>> THEN <<"logging", "auth">> ELSE <<"logging">>

\* the stage registered whatever the credential
MiddlewareListUnconditional(api_key) == <<"auth", "logging">>

\* mcp.middleware after main.py has registered the stages, in order of
\* registration.  The first stage registered is the outermost.
MiddlewareList(api_key) ==
    IF api_key # <<>> THEN <<"auth", "logging">> ELSE <<"logging">>

\* the logging stage without its on_call_tool
HooksMessageOnly(stage, method) ==
    IF stage = "auth" THEN <<"auth.on_request">> ELSE <<"log.on_message">>

\* The hooks a stage overrides that apply to a request with this method,
\* outermost first: on_message, then on_request, then on_call_tool.
Hooks(stage, method) ==
    IF stage = "auth" THEN <<"auth.on_request">>
    ELSE <<"log.on_message">>
         \o (IF method = "tools/call" THEN <<"log.on_call_tool">> ELSE <<>>)

RECURSIVE Chain(_, _)

\* the last stage registered taken as the outermost
ChainLastOutermost(stages, method) ==
    IF stages = <<>> THEN <<>>
    ELSE Chain(Tail(stages), method) \o Hooks(Head(stages), method)

Chain(stages, method) ==
    IF stages = <<>> THEN <<>>
    ELSE Hooks(Head(stages), method) \o Chain(Tail(stages), method)

-----------------------------------------------------------------------------
(* RequestLoggingMiddleware *)

\* the name a hook logs: context.method, or tool/<context.message.name>
HookName(hook, ctx) ==
    IF hook = "log.on_call_tool" THEN <<"tool/", ctx.tool>> ELSE <<ctx.method>>

\* the failure line written without the duration
OutcomeLineUntimed(name, outcome, duration_ms) ==
    IF outcome.ok
    THEN Line("info", <<"[ok] ">> \o name, Some(duration_ms))
    ELSE Line("error", <<"[fail] ">> \o name \o <<" - ", outcome.type, ": ">> \o outcome.message,
              None)

\* the line written after call_next returned or raised
OutcomeLine(name, outcome, duration_ms) ==
    IF outcome.ok
    THEN Line("info", <<"[ok] ">> \o name, Some(duration_ms))
    ELSE Line("error", <<"[fail] ">> \o name \o <<" - ", outcome.type, ": ">> \o outcome.message,
              Some(duration_ms))

-----------------------------------------------------------------------------
(* search/serper.py: the gateway *)

SearchUrl == "https://google.serper.dev/search"
ScrapeUrl == "https://scrape.serper.dev/"
SearchTimeout == 30
ScrapeTimeout == 60

EmptyDict == <<>>

\* Arguments of search_web as the tool surface passes them on
Queries == {<<"x">>, <<"Y", "z">>}
Countries == {None, Some(<<>>), Some(<<"U", "S">>)}
Languages == {None, Some(<<>>), Some(<<"E", "n">>)}
Locations == {None, Some(<<>>), Some(<<"N", "Y">>)}
TimePeriods == {None, Some(<<>>), Some(<<"Z", "z">>)}
Pages == {None} \cup {Some(n) : n \in 1..MaxPage}     \* Field(ge=1)
Urls == {<<"u">>, <<>>}

SearchArgs ==
    [query : Queries, country : Countries, language : Languages,
     location : Locations, time_period : TimePeriods, page : Pages]

\* The calls of search_web the chain is exercised with: defaults only, every
\* filter given, every filter empty
SomeSearchArgs ==
    { [query |-> <<"x">>, country |-> None, language |-> None, location |-> None,
       time_period |-> None, page |-> None],
      [query |-> <<"Y", "z">>, country |-> Some(<<"U", "S">>),
       language |-> Some(<<"E", "n">>), location |-> Some(<<"N", "Y">>),
       time_period |-> Some(<<"Z", "z">>), page |-> Some(2)],
      [query |-> <<"x">>, country |-> Some(<<>>), language |-> Some(<<>>),
       location |-> Some(<<>>), time_period |-> Some(<<>>), page |-> Some(1)] }

\* google_search, lines 47-68: the outbound payload
SearchPayload(a) ==
    LET page == IF a.page # None THEN a.page[1] ELSE 1
    IN  ("q" :> a.query)
        @@ (IF Truthy(a.country) THEN "gl" :> Lower(a.country[1]) ELSE EmptyDict)
        @@ (IF Truthy(a.language) THEN "hl" :> Lower(a.language[1]) ELSE EmptyDict)
        @@ (IF Truthy(a.location) THEN "location" :> a.location[1] ELSE EmptyDict)
        @@ (IF Truthy(a.time_period) THEN "tbs" :> a.time_period[1] ELSE EmptyDict)
        @@ (IF page > 1 THEN "page" :> page ELSE EmptyDict)

Request(url, payload, key, timeout) ==
    [url |-> url, json |-> payload, api_key |-> key, timeout |-> timeout]

\* google_search up to client.post: the configuration error, or the request
google_search_begin(serper_key, a) ==
    IF serper_key = <<>>
    THEN [send |-> FALSE, request |-> Request("", EmptyDict, <<>>, 0),
          outcome |-> SerperAPIError(<<"SERPER_API_KEY is not configured">>, None)]
    ELSE [send |-> TRUE,
          request |-> Request(SearchUrl, SearchPayload(a), serper_key, SearchTimeout),
          outcome |-> NoOutcome]

\* the request sent without looking at the credential
extract_page_content_begin_unchecked(serper_key, url) ==
    [send |-> TRUE,
     request |-> Request(ScrapeUrl, ("url" :> url), serper_key, ScrapeTimeout),
     outcome |-> NoOutcome]

\* extract_page_content up to client.post
extract_page_content_begin(serper_key, url) ==
    IF serper_key = <<>>
    THEN [send |-> FALSE, request |-> Request("", EmptyDict, <<>>, 0),
          outcome |-> SerperAPIError(<<"SERPER_API_KEY is not configured">>, None)]
    ELSE [send |-> TRUE,
          request |-> Request(ScrapeUrl, ("url" :> url), serper_key, ScrapeTimeout),
          outcome |-> NoOutcome]

\* What the provider call ends with: an HTTP response, or an httpx.RequestError
ItemA == ("title" :> <<"A">>) @@ ("link" :> <<"a">>) @@ ("snippet" :> <<"s">>)
ItemB == ("title" :> <<"B">>)
Items == {ItemA, ItemB}

RECURSIVE SeqsUpTo(_, _)
SeqsUpTo(S, n) ==
    IF n = 0 THEN {<<>>}
    ELSE LET shorter == SeqsUpTo(S, n - 1)
         IN  shorter \cup {Append(q, x) : q \in shorter, x \in S}

SearchData ==
    {EmptyDict} \cup {("organic" :> l) : l \in SeqsUpTo(Items, MaxOrganic)}

ScrapeData ==
    { md @@ tx :
        md \in {EmptyDict, ("metadata" :> EmptyDict),
                ("metadata" :> ("title" :> <<>>)), ("metadata" :> ("title" :> <<"T">>))},
        tx \in {EmptyDict, ("text" :> <<>>), ("text" :> <<"b">>)} }

ErrorStatuses == {302, 404, 500}
ErrorBodies == {"quota exceeded", ""}
TransportErrors == {"timed out", "connection refused"}

Replies(tool) ==
    {[kind |-> "response", status |-> 200, text |-> "", data |-> d, desc |-> ""] :
        d \in IF tool = "search_web" THEN SearchData ELSE ScrapeData}
    \cup {[kind |-> "response", status |-> st, text |-> b, data |-> EmptyDict, desc |-> ""] :
        st \in ErrorStatuses, b \in ErrorBodies}
    \cup {[kind |-> "transport", status |-> 0, text |-> "", data |-> EmptyDict, desc |-> e] :
        e \in TransportErrors}

NoReply == [kind |-> "none", status |-> 0, text |-> "", data |-> EmptyDict, desc |-> ""]

\* only 4xx and 5xx taken as failures
IsSuccessBelow400(status) == status >= 200 /\ status <= 399

\* httpx Response.is_success, which raise_for_status() tests
IsSuccess(status) == status >= 200 /\ status <= 299

\* dict.get(key, default)
GetOr(d, k, default) == IF k \in DOMAIN d THEN d[k] ELSE default

RECURSIVE Join(_, _)

\* the separator put after every part
JoinTrailing(parts, sep) ==
    IF parts = <<>> THEN <<>>
    ELSE parts[1] \o sep \o Join(Tail(parts), sep)

\* sep.join(parts)
Join(parts, sep) ==
    IF parts = <<>> THEN <<>>
    ELSE IF Len(parts) = 1 THEN parts[1]
    ELSE parts[1] \o sep \o Join(Tail(parts), sep)

\* google_search, lines 93-103
FormatSearch(data) ==
    LET organic == GetOr(data, "organic", <<>>)
        lines == [i \in 1..Len(organic) |->
                    GetOr(organic[i], "title", <<>>) \o <<"\n">>
                    \o GetOr(organic[i], "link", <<>>) \o <<"\n">>
                    \o GetOr(organic[i], "snippet", <<>>)]
    IN  Join(lines, <<"\n", "\n">>)

\* the title looked up beside the text instead of under metadata
FormatExtractTopLevelTitle(data) ==
    LET title == GetOr(data, "title", <<>>)
        content == GetOr(data, "text", <<>>)
    IN  IF title # <<>> THEN title \o <<"\n", "\n">> \o content ELSE content

\* extract_page_content, lines 150-159
FormatExtract(data) ==
    LET title == GetOr(GetOr(data, "metadata", EmptyDict), "title", <<>>)
        content == GetOr(data, "text", <<>>)
    IN  IF title # <<>> THEN title \o <<"\n", "\n">> \o content ELSE content

\* google_search from the end of client.post on
google_search_end(rep) ==
    IF rep.kind = "transport"
    THEN SerperAPIError(<<"Serper API connection error: ", rep.desc>>, None)
    ELSE IF ~IsSuccess(rep.status)
    THEN SerperAPIError(<<"Serper API request failed: ", rep.text>>, Some(rep.status))
    ELSE Return(FormatSearch(rep.data))

\* extract_page_content from the end of client.post on
extract_page_content_end(rep) ==
    IF rep.kind = "transport"
    THEN SerperAPIError(<<"Serper Scrape API connection error: ", rep.desc>>, None)
    ELSE IF ~IsSuccess(rep.status)
    THEN SerperAPIError(<<"Serper Scrape API request failed: ", rep.text>>, Some(rep.status))
    ELSE Return(FormatExtract(rep.data))

-----------------------------------------------------------------------------
(* The state machine of one call *)

NoContext == [method |-> "none", tool |-> "none"]
NoTransport == [http |-> FALSE, headers |-> NoHeaders]

Init ==
    /\ API_KEY \in ApiKeys
    /\ SERPER_API_KEY \in SerperKeys
    /\ pc = "idle"
    /\ context = NoContext
    /\ transport = NoTransport
    /\ chain = <<>>
    /\ idx = 1
    /\ frames = <<>>
    /\ clock = 0
    /\ produced = NoOutcome
    /\ result = NoOutcome
    /\ response = NoOutcome
    /\ log = <<>>
    /\ trace = <<>>
    /\ outbound = <<>>
    /\ arguments = EmptyDict
    /\ reply = NoReply

\* A request arrives and the server builds the chain for it from mcp.middleware.
Receive(ctx, t) ==
    /\ pc \in {"idle", "done"}
    /\ pc' = "down"
    /\ context' = ctx
    /\ transport' = t
    /\ chain' = Chain(MiddlewareList(API_KEY), ctx.method)
    /\ idx' = 1
    /\ frames' = <<>>
    /\ clock' = 0
    /\ produced' = NoOutcome
    /\ result' = NoOutcome
    /\ response' = NoOutcome
    /\ log' = <<>>
    /\ trace' = <<>>
    /\ outbound' = <<>>
    /\ arguments' = EmptyDict
    /\ reply' = NoReply
    /\ UNCHANGED <<API_KEY, SERPER_API_KEY>>

AtHook(h) == pc = "down" /\ idx <= Len(chain) /\ chain[idx] = h
AtHandler == pc = "down" /\ idx = Len(chain) + 1

\* BearerAuthMiddleware.on_request
AuthOnRequest ==
    /\ AtHook("auth.on_request")
    /\ LET d == on_request(API_KEY, context.method, get_auth_header(transport))
       IN  /\ log' = log \o d.lines
           /\ trace' = Append(trace, "auth:" \o d.verdict)
           /\ IF d.next
              THEN /\ idx' = idx + 1
                   /\ UNCHANGED <<pc, produced, result>>
              ELSE /\ pc' = "up"
                   /\ produced' = d.error
                   /\ result' = d.error
                   /\ UNCHANGED idx
    /\ UNCHANGED <<API_KEY, SERPER_API_KEY, context, transport, chain, frames,
                   clock, response, outbound, arguments, reply>>

\* A logging hook up to its call_next: it reads the clock and the name
LogEnter(hook) ==
    /\ AtHook(hook)
    /\ frames' = <<[hook |-> hook, start_time |-> clock,
                    name |-> HookName(hook, context)]>> \o frames
    /\ idx' = idx + 1
    /\ trace' = Append(trace, "enter:" \o hook)
    /\ UNCHANGED <<API_KEY, SERPER_API_KEY, pc, context, transport, chain, clock,
                   produced, result, response, log, outbound, arguments, reply>>

\* the hook logging a failure and returning instead of raising
LogExitSwallowing(hook) ==
    /\ pc = "up"
    /\ frames # <<>>
    /\ Head(frames).hook = hook
    /\ log' = Append(log, OutcomeLine(Head(frames).name, result,
                                      clock - Head(frames).start_time))
    /\ result' = IF result.ok THEN result ELSE Return(<<>>)
    /\ frames' = Tail(frames)
    /\ trace' = Append(trace, "exit:" \o hook)
    /\ UNCHANGED <<API_KEY, SERPER_API_KEY, pc, context, transport, chain, idx,
                   clock, produced, response, outbound, arguments, reply>>

\* A logging hook after its call_next returned or raised: it logs the outcome
\* and hands the same outcome on (return result / raise)
LogExit(hook) ==
    /\ pc = "up"
    /\ frames # <<>>
    /\ Head(frames).hook = hook
    /\ log' = Append(log, OutcomeLine(Head(frames).name, result,
                                      clock - Head(frames).start_time))
    /\ result' = result
    /\ frames' = Tail(frames)
    /\ trace' = Append(trace, "exit:" \o hook)
    /\ UNCHANGED <<API_KEY, SERPER_API_KEY, pc, context, transport, chain, idx,
                   clock, produced, response, outbound, arguments, reply>>

\* RequestLoggingMiddleware.on_message
LogOnMessageEnter == LogEnter("log.on_message")
LogOnMessageExit == LogExit("log.on_message")

\* RequestLoggingMiddleware.on_call_tool
LogOnCallToolEnter == LogEnter("log.on_call_tool")
LogOnCallToolExit == LogExit("log.on_call_tool")

\* The handler of a request that is not a tool call (initialize, tools/list,
\* ping) is the server's own; it returns or raises.
HandleRequest(out) ==
    /\ AtHandler
    /\ context.method # "tools/call"
    /\ pc' = "up"
    /\ produced' = out
    /\ result' = out
    /\ trace' = trace \o <<"handler:start", "handler:end">>
    /\ UNCHANGED <<API_KEY, SERPER_API_KEY, context, transport, chain, idx, frames,
                   clock, response, log, outbound, arguments, reply>>

\* A gateway function up to its await: it raises, or the request goes out
GatewayBegin(b) ==
    IF b.send
    THEN /\ pc' = "net"
         /\ outbound' = Append(outbound, b.request)
         /\ trace' = trace \o <<"handler:start", "net:send">>
         /\ UNCHANGED <<produced, result>>
    ELSE /\ pc' = "up"
         /\ produced' = b.outcome
         /\ result' = b.outcome
         /\ trace' = trace \o <<"handler:start", "handler:end">>
         /\ UNCHANGED outbound

\* search_web_tool: await google_search(...)
SearchWebTool(a) ==
    /\ AtHandler
    /\ context.method = "tools/call"
    /\ context.tool = "search_web"
    /\ arguments' = a
    /\ GatewayBegin(google_search_begin(SERPER_API_KEY, a))
    /\ UNCHANGED <<API_KEY, SERPER_API_KEY, context, transport, chain, idx, frames,
                   clock, response, log, reply>>

\* extract_webpage_tool: await extract_page_content(url)
ExtractWebpageTool(url) ==
    /\ AtHandler
    /\ context.method = "tools/call"
    /\ context.tool = "extract_webpage"
    /\ arguments' = [url |-> url]
    /\ GatewayBegin(extract_page_content_begin(SERPER_API_KEY, url))
    /\ UNCHANGED <<API_KEY, SERPER_API_KEY, context, transport, chain, idx, frames,
                   clock, response, log, reply>>

\* The outbound call is the one place where a call waits: time passes
Tick ==
    /\ pc = "net"
    /\ clock < MaxClock
    /\ clock' = clock + 1
    /\ UNCHANGED <<API_KEY, SERPER_API_KEY, pc, context, transport, chain, idx,
                   frames, produced, result, response, log, trace, outbound, arguments, reply>>

\* client.post ends; the gateway function and the tool return or raise
ProviderReply(r) ==
    /\ pc = "net"
    /\ LET out == IF context.tool = "search_web"
                  THEN google_search_end(r)
                  ELSE extract_page_content_end(r)
       IN  /\ produced' = out
           /\ result' = out
    /\ pc' = "up"
    /\ reply' = r
    /\ trace' = trace \o <<"net:done", "handler:end">>
    /\ UNCHANGED <<API_KEY, SERPER_API_KEY, context, transport, chain, idx, frames,
                   clock, response, log, outbound, arguments>>

\* The outermost stage has returned or raised: the caller gets the outcome
Deliver ==
    /\ pc = "up"
    /\ frames = <<>>
    /\ pc' = "done"
    /\ response' = result
    /\ trace' = Append(trace, "deliver")
    /\ UNCHANGED <<API_KEY, SERPER_API_KEY, context, transport, chain, idx, frames,
                   clock, produced, result, log, outbound, arguments, reply>>

HandlerOutcomes == {Return(<<"r">>), OtherError("NotFoundError", "unknown")}

Next ==
    \/ \E ctx \in Contexts, t \in Transports : Receive(ctx, t)
    \/ AuthOnRequest
    \/ LogOnMessageEnter
    \/ LogOnCallToolEnter
    \/ \E out \in HandlerOutcomes : HandleRequest(out)
    \/ \E a \in SomeSearchArgs : SearchWebTool(a)
    \/ \E url \in Urls : ExtractWebpageTool(url)
    \/ Tick
    \/ \E r \in Replies(context.tool) : ProviderReply(r)
    \/ LogOnCallToolExit
    \/ LogOnMessageExit
    \/ Deliver

Spec == Init /\ [][Next]_vars

-----------------------------------------------------------------------------
(* The gateway functions called on their own, with every combination of    *)
(* arguments: the state is that of a tool call whose chain is empty.        *)

InitGateway ==
    /\ API_KEY = <<>>
    /\ SERPER_API_KEY \in SerperKeys
    /\ pc = "down"
    /\ context \in {[method |-> "tools/call", tool |-> t] : t \in Tools}
    /\ transport = NoTransport
    /\ chain = <<>>
    /\ idx = 1
    /\ frames = <<>>
    /\ clock = 0
    /\ produced = NoOutcome
    /\ result = NoOutcome
    /\ response = NoOutcome
    /\ log = <<>>
    /\ trace = <<>>
    /\ outbound = <<>>
    /\ arguments = EmptyDict
    /\ reply = NoReply

NextGateway ==
    \/ \E a \in SearchArgs : SearchWebTool(a)
    \/ \E url \in Urls : ExtractWebpageTool(url)
    \/ Tick
    \/ \E r \in Replies(context.tool) : ProviderReply(r)
    \/ Deliver

SpecGateway == InitGateway /\ [][NextGateway]_vars

-----------------------------------------------------------------------------
(* search/ui.py: the renderer.  The HTML is a sequence whose elements are   *)
(* the characters of the embedded values, each entity written by escape()   *)
(* as one element, and the fixed pieces of the template as one element      *)
(* each: an element that is a single markup character is a character of a   *)
(* value that went into the page as it was.                                 *)

\* html.escape(c) for one character, quote=True
EscapeChar(c) ==
    CASE c = "&" -> "&amp;"
      [] c = "<" -> "&lt;"
      [] c = ">" -> "&gt;"
      [] c = "\"" -> "&quot;"
      [] c = "'" -> "&#x27;"
      [] OTHER -> c

\* html.escape(s)
Escape(s) == [i \in 1..Len(s) |-> EscapeChar(s[i])]

\* _escape_html
escape_html(text) == IF text # <<>> THEN Escape(text) ELSE <<>>

\* the first position from n on of a character of C in s, Len(s) + 1 if none
FirstOf(s, C, n) ==
    IF \E i \in n..Len(s) : s[i] \in C
    THEN CHOOSE i \in n..Len(s) : s[i] \in C /\ \A j \in n..(i - 1) : s[j] \notin C
    ELSE Len(s) + 1

SchemeChars == {"h", "t", "p", "s", "a", "b"}

\* urllib.parse.urlparse(url): netloc and path
urlparse(url) ==
    LET colon == FirstOf(url, {":"}, 1)
        hasScheme == /\ colon <= Len(url) /\ colon > 1
                     /\ \A i \in 1..(colon - 1) : url[i] \in SchemeChars
        rest == IF hasScheme THEN SubSeq(url, colon + 1, Len(url)) ELSE url
        hasNetloc == Len(rest) >= 2 /\ rest[1] = "/" /\ rest[2] = "/"
        delim == FirstOf(rest, {"/", "?", "#"}, 3)
        after == IF hasNetloc THEN SubSeq(rest, delim, Len(rest)) ELSE rest
    IN  [netloc |-> IF hasNetloc THEN SubSeq(rest, 3, delim - 1) ELSE <<>>,
         path |-> SubSeq(after, 1, FirstOf(after, {"?", "#"}, 1) - 1)]

\* _get_favicon_url
get_favicon_url(url) ==
    LET parsed == urlparse(url)
        domain == IF parsed.netloc # <<>> THEN parsed.netloc
                  ELSE SubSeq(parsed.path, 1, FirstOf(parsed.path, {"/"}, 1) - 1)
    IN  <<"https://www.google.com/s2/favicons?domain=">> \o domain \o <<"&sz=32">>

\* _get_domain
get_domain(url) == urlparse(url).netloc

NoResultsHtml == <<"<style>...</style><article>no results</article><script>...</script>">>

\* generate_search_results_html, lines 60-81: the card of results[i]
Card(item, i) ==
    LET title == escape_html(GetOr(item, "title", <<"Bez nazvu">>))
        link == GetOr(item, "link", <<"#">>)
        link_escaped == escape_html(link)
        snippet == escape_html(GetOr(item, "snippet", <<>>))
        position == GetOr(item, "position", i)
        favicon_url == get_favicon_url(link)
        domain == escape_html(get_domain(link))
    IN  <<"<div><div><img src=\"">> \o favicon_url
        \o <<"\" alt=\"\" onerror=\"...\"><span>">> \o domain
        \o <<"</span><span>#", ToString(position), "</span></div><a href=\"">> \o link_escaped
        \o <<"\" target=\"_blank\">">> \o title
        \o <<"</a><p>">> \o snippet
        \o <<"</p><div><button onclick=\"extractContent('">> \o link_escaped
        \o <<"')\">...</button><a href=\"">> \o link_escaped
        \o <<"\" target=\"_blank\">...</a></div></div>">>

RECURSIVE Cards(_, _)
\* "".join(html_results)
Cards(results, i) ==
    IF i > Len(results) THEN <<>>
    ELSE Card(results[i], i) \o Cards(results, i + 1)

\* generate_search_results_html
generate_search_results_html(query, results) ==
    IF results = <<>> THEN NoResultsHtml
    ELSE <<"<style>...</style><article><button>...</button><div id=\"carousel\">">>
         \o Cards(results, 1)
         \o <<"</div><button>...</button></article><script>...</script>">>

\* Result records the provider may return
ResultPlain ==
    ("title" :> <<"<", "b", ">">>) @@ ("link" :> <<"h", ":", "/", "/", "a", "/", "p">>)
    @@ ("snippet" :> <<"s", "&", "'">>) @@ ("position" :> 3)
ResultQuoteInHost ==
    ("title" :> <<"T">>) @@ ("link" :> <<"h", ":", "/", "/", "a", "\"", "b", "/", "p", "?", "q">>)
ResultNoScheme ==
    ("link" :> <<"a", "<", "b", "/", "p">>) @@ ("snippet" :> <<>>)
ResultBare == ("title" :> <<>>)
Results == {ResultPlain, ResultQuoteInHost, ResultNoScheme, ResultBare}

\* generate_search_results_html called with a query and a list of results
InitRenderer ==
    /\ API_KEY = <<>>
    /\ SERPER_API_KEY \in SerperKeys \ {<<>>}
    /\ pc = "down"
    /\ context = [method |-> "tools/call", tool |-> "search_web_ui"]
    /\ transport = NoTransport
    /\ chain = <<>>
    /\ idx = 1
    /\ frames = <<>>
    /\ clock = 0
    /\ produced = NoOutcome
    /\ result = NoOutcome
    /\ response = NoOutcome
    /\ log = <<>>
    /\ trace = <<>>
    /\ outbound = <<>>
    /\ arguments \in [query : Queries, results : SeqsUpTo(Results, MaxOrganic)]
    /\ reply = NoReply

\* create_search_results_ui: html_content = generate_search_results_html(query, results)
GenerateHtml ==
    /\ AtHandler
    /\ context.tool = "search_web_ui"
    /\ LET out == Return(generate_search_results_html(arguments.query, arguments.results))
       IN  /\ produced' = out
           /\ result' = out
    /\ pc' = "up"
    /\ trace' = trace \o <<"handler:start", "handler:end">>
    /\ UNCHANGED <<API_KEY, SERPER_API_KEY, context, transport, chain, idx, frames,
                   clock, response, log, outbound, arguments, reply>>

NextRenderer ==
    \/ GenerateHtml
    \/ Deliver

SpecRenderer == InitRenderer /\ [][NextRenderer]_vars

-----------------------------------------------------------------------------
(* Properties of the authentication stage *)

\* The Authorization value the client sent, if any
Presented ==
    IF transport.http /\ "authorization" \in DOMAIN transport.headers
    THEN Some(transport.headers["authorization"])
    ELSE None

AuthConfigured == API_KEY # <<>>
InCall == pc \in {"down", "net", "up", "done"}

\* The authentication stage is the first hook when it is registered: the call
\* has passed it once call_next has moved on, and was rejected by it when the
\* call turned back at the first hook.
AuthPassed == InCall /\ AuthConfigured /\ idx > 1
AuthRejected == InCall /\ AuthConfigured /\ idx = 1 /\ pc \in {"up", "done"}

RejectedAs(m) == AuthRejected /\ produced = McpError(-32001, m)

HandshakeAndCorrectPass ==
    /\ (AuthConfigured /\ pc \in {"up", "done"} /\ context.method = "initialize")
          => AuthPassed
    /\ (AuthConfigured /\ pc \in {"up", "done"} /\ context.method # "initialize"
        /\ Presented = Some(BearerPrefix \o API_KEY))
          => AuthPassed

RejectionsDistinct ==
    /\ MsgMissing # MsgMalformed /\ MsgMissing # MsgInvalid /\ MsgMalformed # MsgInvalid
    /\ AuthRejected => produced.code = Some(-32001)

OtherCall == AuthConfigured /\ pc \in {"up", "done"} /\ context.method # "initialize"

\* C1 as stated: with a credential configured the handshake passes; any other
\* call passes with "Bearer <K>", is rejected as missing without a header, as
\* malformed with a header that does not start with "Bearer ", and as invalid
\* with "Bearer <t>", t # K; the rejections differ and carry code -32001.
C1_AsStated ==
    /\ HandshakeAndCorrectPass
    /\ RejectionsDistinct
    /\ (OtherCall /\ Presented = None) => RejectedAs(MsgMissing)
    /\ (OtherCall /\ Presented # None /\ ~(Len(Presented[1]) >= 7
            /\ SubSeq(Presented[1], 1, 7) = BearerPrefix))
          => RejectedAs(MsgMalformed)
    /\ (OtherCall /\ Presented # None /\ Len(Presented[1]) >= 7
            /\ SubSeq(Presented[1], 1, 7) = BearerPrefix
            /\ SubSeq(Presented[1], 8, Len(Presented[1])) # API_KEY)
          => RejectedAs(MsgInvalid)

\* C1 amended: as stated, except that a header whose value is empty is
\* rejected as missing, like no header; a non-empty header that does not start
\* with "Bearer " is rejected as malformed.
C1_AuthDecision ==
    /\ HandshakeAndCorrectPass
    /\ RejectionsDistinct
    /\ (OtherCall /\ (Presented = None \/ Presented = Some(<<>>)))
          => RejectedAs(MsgMissing)
    /\ (OtherCall /\ Presented # None /\ Presented[1] # <<>>
            /\ ~(Len(Presented[1]) >= 7 /\ SubSeq(Presented[1], 1, 7) = BearerPrefix))
          => RejectedAs(MsgMalformed)
    /\ (OtherCall /\ Presented # None /\ Len(Presented[1]) >= 7
            /\ SubSeq(Presented[1], 1, 7) = BearerPrefix
            /\ SubSeq(Presented[1], 8, Len(Presented[1])) # API_KEY)
          => RejectedAs(MsgInvalid)

\* a call with an empty Authorization value has been rejected as missing
C1_Witness ==
    /\ pc = "done" /\ API_KEY = K1 /\ context.method = "tools/call"
    /\ Presented = Some(<<>>)
    /\ response = McpError(-32001, MsgMissing)

-----------------------------------------------------------------------------
(* Properties of the chain *)

Has(e) == \E i \in 1..Len(trace) : trace[i] = e
Before(e1, e2) == \E i, j \in 1..Len(trace) : i < j /\ trace[i] = e1 /\ trace[j] = e2

RejectEvents == {"auth:missing", "auth:malformed", "auth:invalid"}
PassEvents == {"auth:exempt", "auth:pass"}
ExitEvents == {"exit:log.on_message", "exit:log.on_call_tool"}
EnterEvents == {"enter:log.on_message", "enter:log.on_call_tool"}

RejectedByAuth == \E e \in RejectEvents : Has(e)
HandlerInvoked == Has("handler:start")

\* lines of the logging stage: they carry a duration
IsOutcomeLine(l) == l.ms # None
OutcomeLines == SelectSeq(log, IsOutcomeLine)
\* lines of the authentication stage
IsAuthLine(l) == l.ms = None
AuthLines == SelectSeq(log, IsAuthLine)

\* C2: without a configured credential the chain has no authentication
\* stage; every call, whatever its method and headers, reaches the handler
\* and none ends with an authentication error.
C2_NoAuthStage ==
    (API_KEY = <<>> /\ InCall) =>
        /\ \A i \in 1..Len(chain) : chain[i] # "auth.on_request"
        /\ \A e \in RejectEvents \cup PassEvents : ~Has(e)
        /\ AuthLines = <<>>
        /\ pc \in {"up", "done"} => HandlerInvoked
        /\ pc = "done" => response.type # "McpError"

\* a tool call with a header that is no bearer token was executed
C2_Witness ==
    /\ API_KEY = <<>> /\ pc = "done" /\ context.method = "tools/call"
    /\ Presented = Some(<<"T", "o", "k", "e", "n", " ", "x">>)
    /\ HandlerInvoked /\ response.ok

\* C3: in a call the handler starts only after the authentication stage has
\* let the call pass, never when it rejected; a logging hook records the
\* outcome only after the handler, with its outbound call, has ended.
C3_Ordering ==
    /\ (AuthConfigured /\ HandlerInvoked) =>
          \E e \in PassEvents : Before(e, "handler:start")
    /\ RejectedByAuth => (~HandlerInvoked /\ outbound = <<>> /\ reply = NoReply)
    /\ \A j \in 1..Len(trace) : trace[j] \in ExitEvents =>
          \E i \in 1..(j - 1) : trace[i] = "handler:end"
    /\ OutcomeLines # <<>> => (Has("handler:end") /\ pc # "net")
    /\ Has("net:send") /\ Has("handler:end") => Before("net:send", "net:done")
                                                /\ Before("net:done", "handler:end")

\* an authenticated tool call went out to the provider, failed there, and was
\* then logged by both hooks
C3_Witness ==
    /\ AuthConfigured /\ pc = "done" /\ Has("auth:pass")
    /\ Len(outbound) = 1 /\ reply.kind = "transport"
    /\ Len(OutcomeLines) = 2

\* C4 as stated: the logging stage wraps the authentication stage, so a call
\* rejected by authentication still gets a failure line of the logging stage.
C4_AsStated ==
    (pc = "done" /\ RejectedByAuth) =>
        \E i \in 1..Len(log) : IsOutcomeLine(log[i]) /\ log[i].level = "error"

\* C4 amended: the authentication stage is registered first and wraps the
\* logging stage; for a call it rejects no logging hook runs and no outcome
\* line is written, the only line being the warning of the authentication
\* stage itself.
C4_AuthOutermost ==
    /\ (AuthConfigured /\ InCall) => chain[1] = "auth.on_request"
    /\ RejectedByAuth =>
          /\ \A e \in EnterEvents \cup ExitEvents : ~Has(e)
          /\ OutcomeLines = <<>>
          /\ Len(log) = 1 /\ log[1].level = "warning" /\ log[1].ms = None

\* a tool call with a wrong token has been rejected and answered
C4_Witness ==
    /\ pc = "done" /\ API_KEY = K1 /\ context.method = "tools/call"
    /\ Presented = Some(BearerPrefix \o K2)
    /\ Has("auth:invalid") /\ ~response.ok

\* C5: a rejection says nothing about the configured credential: whatever
\* other credential had been configured, if the presented header is rejected
\* under it with the same classification, the error and the log lines are
\* the ones this call got.
C5_NoLeak ==
    \A v \in {"missing", "malformed", "invalid"} :
        (AuthConfigured /\ Has("auth:" \o v)) =>
            \A k \in ApiKeys \ {<<>>} :
                LET d == on_request(k, context.method, get_auth_header(transport))
                IN  d.verdict = v => (d.error = produced /\ d.lines = log)

\* "Bearer " with an empty token is rejected as invalid under either credential
C5_Witness ==
    /\ pc = "done" /\ API_KEY = K1 /\ Presented = Some(BearerPrefix)
    /\ Has("auth:invalid") /\ response = McpError(-32001, MsgInvalid)

-----------------------------------------------------------------------------
(* Properties of the logging stage *)

FailureLines == SelectSeq(OutcomeLines, LAMBDA l : l.level = "error")

\* C6: the logging hooks hand on what the rest of the chain gave them: the
\* outcome travelling back, and the one the caller gets, is the outcome the
\* handler produced, value for value and failure for failure.
C6_PureObserver ==
    /\ pc \in {"up", "done"} => result = produced
    /\ pc = "done" => (response = produced /\ response.type # "none")

\* a failed tool call went back through both logging hooks unchanged
C6_Witness ==
    /\ pc = "done" /\ context.tool = "search_web"
    /\ Len(FailureLines) = 2
    /\ response = SerperAPIError(<<"Serper API request failed: ", "quota exceeded">>, Some(500))

\* the type name and the message of the failure are in the line
Classified(l, e) ==
    \E i \in 1..Len(l.text) :
        /\ l.text[i] = e.type
        /\ SubSeq(l.text, i + 2, Len(l.text)) = e.message

\* C7 as stated: every error that reaches the caller is logged exactly once,
\* with elapsed time and classification, and is re-raised unchanged; nothing
\* is retried.
C7_AsStated ==
    (pc = "done" /\ ~response.ok) =>
        /\ response = produced
        /\ Len(outbound) <= 1
        /\ Len(log) = 1
        /\ log[1].ms # None
        /\ Classified(log[1], response)

\* C7 amended: a failure of the handler is logged by each logging hook
\* around it, once for a call that is no tool invocation and twice (the
\* tool-named line first) for a tool invocation, each line with elapsed time
\* and classification; a rejection by the authentication stage is logged
\* once, by that stage, as a warning without elapsed time; every error
\* reaches the caller unchanged and nothing is retried.
C7_ErrorsLogged ==
    (pc = "done" /\ ~response.ok) =>
        /\ response = produced
        /\ Len(outbound) <= 1
        /\ \A i \in 1..Len(log) : log[i].level \in {"error", "warning"} \/ ~IsOutcomeLine(log[i])
        /\ IF RejectedByAuth
           THEN /\ Len(log) = 1
                /\ log[1].level = "warning" /\ log[1].ms = None
           ELSE /\ Len(FailureLines) = Len(OutcomeLines)
                /\ Len(FailureLines) = (IF context.method = "tools/call" THEN 2 ELSE 1)
                /\ \A i \in 1..Len(FailureLines) :
                      /\ FailureLines[i].ms # None
                      /\ FailureLines[i].ms[1] \in 0..MaxClock
                      /\ Classified(FailureLines[i], response)
                /\ context.method = "tools/call" =>
                      /\ FailureLines[1].text[2] = "tool/"
                      /\ FailureLines[2].text[2] = context.method

\* a tool call failed at the provider after some time and was logged twice
C7_Witness ==
    /\ pc = "done" /\ context.tool = "extract_webpage"
    /\ response.type = "SerperAPIError" /\ response.status = Some(404)
    /\ Len(FailureLines) = 2 /\ FailureLines[1].ms = Some(1)

-----------------------------------------------------------------------------
(* Properties of the gateway *)

ConfigurationError == SerperAPIError(<<"SERPER_API_KEY is not configured">>, None)

\* C8: without the upstream credential both gateway functions raise the
\* configuration error at once, whatever their arguments, and no request
\* ever goes out.
C8_NoCredentialNoNetwork ==
    SERPER_API_KEY = <<>> =>
        /\ outbound = <<>>
        /\ pc # "net"
        /\ ~Has("net:send")
        /\ reply = NoReply
        /\ (HandlerInvoked /\ context.method = "tools/call") =>
              (Has("handler:end") /\ produced = ConfigurationError)

\* extract_page_content has failed without the credential
C8_Witness ==
    /\ SERPER_API_KEY = <<>> /\ pc = "done" /\ context.tool = "extract_webpage"
    /\ arguments = [url |-> <<"u">>]
    /\ response = ConfigurationError /\ outbound = <<>>

\* The kind of a gateway error, read from what the error carries
KindOf(e) ==
    IF e.status # None THEN "Upstream"
    ELSE IF e.message = <<"SERPER_API_KEY is not configured">> THEN "Configuration"
    ELSE "Connectivity"

\* C9: with the upstream credential each gateway function sends one request
\* and no more; a non-2xx response gives an error with that status and the
\* response body in its message, a transport failure an error without status;
\* what the error carries tells configuration, upstream and connectivity
\* failures apart.
C9_ErrorMapping ==
    /\ Len(outbound) <= 1
    /\ (SERPER_API_KEY # <<>> /\ Has("handler:end") /\ context.method = "tools/call")
          => Len(outbound) = 1
    /\ (Has("handler:end") /\ context.method = "tools/call") =>
          /\ (reply.kind = "response" /\ ~(reply.status \in 200..299)) =>
                /\ produced.type = "SerperAPIError"
                /\ produced.status = Some(reply.status)
                /\ \E i \in 1..Len(produced.message) : produced.message[i] = reply.text
                /\ KindOf(produced) = "Upstream"
          /\ reply.kind = "transport" =>
                /\ produced.type = "SerperAPIError"
                /\ produced.status = None
                /\ \E i \in 1..Len(produced.message) : produced.message[i] = reply.desc
                /\ KindOf(produced) = "Connectivity"
          /\ (reply.kind = "response" /\ reply.status \in 200..299) => produced.ok
          /\ reply.kind = "none" =>
                (SERPER_API_KEY = <<>> /\ ~produced.ok /\ KindOf(produced) = "Configuration")

\* a redirect answered to google_search became an error with status 302
C9_Witness ==
    /\ pc = "done" /\ context.tool = "search_web"
    /\ reply.kind = "response" /\ reply.status = 302 /\ reply.text = "quota exceeded"
    /\ response.status = Some(302) /\ Len(outbound) = 1

\* s with its capital letters replaced by small ones
Lowered(s, t) ==
    /\ Len(t) = Len(s)
    /\ \A i \in 1..Len(s) :
          /\ t[i] \notin {"U", "S", "E", "N", "Y", "Z"}
          /\ s[i] \notin {"U", "S", "E", "N", "Y", "Z"} => t[i] = s[i]
          /\ s[i] = "U" => t[i] = "u"
          /\ s[i] = "S" => t[i] = "s"
          /\ s[i] = "E" => t[i] = "e"

Given(o) == o # None /\ o[1] # <<>>

\* C10: the payload of the search request has the query; country and language
\* lower-cased, location and time period as given, each only when given and
\* not empty; page only when it is above 1; and no other field.
C10_Payload ==
    (context.tool = "search_web" /\ outbound # <<>>) =>
        LET p == outbound[1].json
            a == arguments
        IN  /\ DOMAIN p \subseteq {"q", "gl", "hl", "location", "tbs", "page"}
            /\ "q" \in DOMAIN p /\ p["q"] = a.query
            /\ "gl" \in DOMAIN p <=> Given(a.country)
            /\ "gl" \in DOMAIN p => Lowered(a.country[1], p["gl"])
            /\ "hl" \in DOMAIN p <=> Given(a.language)
            /\ "hl" \in DOMAIN p => Lowered(a.language[1], p["hl"])
            /\ "location" \in DOMAIN p <=> Given(a.location)
            /\ "location" \in DOMAIN p => p["location"] = a.location[1]
            /\ "tbs" \in DOMAIN p <=> Given(a.time_period)
            /\ "tbs" \in DOMAIN p => p["tbs"] = a.time_period[1]
            /\ "page" \in DOMAIN p <=> (a.page # None /\ a.page[1] > 1)
            /\ "page" \in DOMAIN p => p["page"] = a.page[1]

\* a search for page 2 in country "US" was sent with gl "us" and page 2
C10_Witness ==
    /\ context.tool = "search_web" /\ Len(outbound) = 1
    /\ arguments = [query |-> <<"x">>, country |-> Some(<<"U", "S">>), language |-> None,
                    location |-> Some(<<>>), time_period |-> None, page |-> Some(2)]
    /\ outbound[1].json = ("q" :> <<"x">>) @@ ("gl" :> <<"u", "s">>) @@ ("page" :> 2)

-----------------------------------------------------------------------------
(* Properties of the results returned by the gateway *)

SucceededAt(tool) ==
    /\ context.tool = tool /\ Has("handler:end")
    /\ reply.kind = "response" /\ reply.status \in 200..299

Field(item, k) == IF k \in DOMAIN item THEN item[k] ELSE <<>>

\* the three lines of one result
Block(item) ==
    Field(item, "title") \o <<"\n">> \o Field(item, "link") \o <<"\n">>
    \o Field(item, "snippet")

\* C11: for a successful response google_search returns the results in the
\* order received, each as its three lines title, link, snippet, two
\* consecutive results separated by one blank line, with nothing before the
\* first and nothing after the last; no result list, or an empty one, gives
\* the empty string.
C11_Flattened ==
    SucceededAt("search_web") =>
        LET organic == IF "organic" \in DOMAIN reply.data THEN reply.data["organic"] ELSE <<>>
            n == Len(organic)
            v == produced.value
            Start[i \in 1..n] ==
                IF i = 1 THEN 1 ELSE Start[i - 1] + Len(Block(organic[i - 1])) + 2
            End(i) == Start[i] + Len(Block(organic[i])) - 1
        IN  /\ produced.ok
            /\ n = 0 => v = <<>>
            /\ n > 0 => Len(v) = End(n)
            /\ \A i \in 1..n :
                  /\ End(i) <= Len(v)
                  /\ SubSeq(v, Start[i], End(i)) = Block(organic[i])
                  /\ i < n => (v[End(i) + 1] = "\n" /\ v[End(i) + 2] = "\n")

\* two results, the second without link and snippet, came back flattened
C11_Witness ==
    /\ pc = "done" /\ SucceededAt("search_web")
    /\ reply.data = ("organic" :> <<ItemA, ItemB>>)
    /\ response.value = <<"A", "\n", "a", "\n", "s", "\n", "\n", "B", "\n", "\n">>

\* title and body of a scrape response, absent ones as empty
PageTitle ==
    IF "metadata" \in DOMAIN reply.data /\ "title" \in DOMAIN reply.data["metadata"]
    THEN reply.data["metadata"]["title"] ELSE <<>>
PageBody == IF "text" \in DOMAIN reply.data THEN reply.data["text"] ELSE <<>>

TitleThenBody ==
    /\ produced.ok
    /\ PageTitle # <<>> => produced.value = PageTitle \o <<"\n", "\n">> \o PageBody
    /\ PageTitle = <<>> => produced.value = PageBody

\* C12 as stated: extract_page_content returns title, two newlines and body
\* when there is a title and the body alone when there is none; an absent or
\* empty body gives the empty string, with or without a title.
C12_AsStated ==
    SucceededAt("extract_webpage") =>
        /\ TitleThenBody
        /\ PageBody = <<>> => produced.value = <<>>

\* C12 amended: as stated, except that an absent or empty body counts as the
\* empty body text: the result is then the empty string when there is no
\* title, and the title followed by two newlines when there is one; it is
\* never an error.
C12_Extract ==
    SucceededAt("extract_webpage") =>
        /\ TitleThenBody
        /\ (PageBody = <<>> /\ PageTitle = <<>>) => produced.value = <<>>
        /\ (PageBody = <<>> /\ PageTitle # <<>>) => produced.value = PageTitle \o <<"\n", "\n">>

\* a page with a title and no text came back as the title and two newlines
C12_Witness ==
    /\ pc = "done" /\ SucceededAt("extract_webpage")
    /\ reply.data = ("metadata" :> ("title" :> <<"T">>))
    /\ response = Return(<<"T", "\n", "\n">>)

-----------------------------------------------------------------------------
(* Properties of the renderer *)

MarkupChars == {"<", ">", "&", "\"", "'"}

Rendered == context.tool = "search_web_ui" /\ pc \in {"up", "done"}

\* C13: in the HTML rendered for any list of results every embedded value
\* (title, link, snippet, the domain, the favicon reference built from the
\* domain, the link handed to the extract action) is in its escaped form: no
\* markup character of a value is in the page as it was.
C13_AllEscaped ==
    Rendered => \A i \in 1..Len(produced.value) : produced.value[i] \notin MarkupChars

-----------------------------------------------------------------------------
(* Further properties of the chain *)

ExitsInTrace == SelectSeq(trace, LAMBDA e : e \in ExitEvents)

\* C14: a call that got past authentication ends with two outcome lines when
\* it is a tool invocation, the tool-named one first and the method-named one
\* second, and with one method-named line otherwise, whether the call
\* succeeded or failed; a line is written only when the hook's call_next has
\* returned or raised.
C14_OutcomeLines ==
    /\ (pc = "done" /\ ~RejectedByAuth) =>
          /\ \A i \in 1..Len(OutcomeLines) :
                OutcomeLines[i].level = (IF response.ok THEN "info" ELSE "error")
          /\ IF context.method = "tools/call"
             THEN /\ Len(OutcomeLines) = 2
                  /\ OutcomeLines[1].text[2] = "tool/"
                  /\ OutcomeLines[1].text[3] = context.tool
                  /\ OutcomeLines[2].text[2] = context.method
             ELSE /\ Len(OutcomeLines) = 1
                  /\ OutcomeLines[1].text[2] = context.method
    /\ Len(OutcomeLines) = Len(ExitsInTrace)
    /\ OutcomeLines # <<>> => (Has("handler:end") /\ pc \in {"up", "done"})
    /\ Len(ExitsInTrace) = 2 =>
          ExitsInTrace = <<"exit:log.on_call_tool", "exit:log.on_message">>

\* an authenticated search succeeded and was logged by both hooks
C14_Witness ==
    /\ pc = "done" /\ API_KEY = K2 /\ Has("auth:pass")
    /\ context.tool = "search_web" /\ response.ok
    /\ Len(OutcomeLines) = 2 /\ OutcomeLines[1].level = "info"

\* no HTTP request or a failing lookup, no headers at all, or an
\* Authorization header without a value
HeadersUnavailable ==
    \/ ~transport.http
    \/ DOMAIN transport.headers = {}
    \/ ("authorization" \in DOMAIN transport.headers
            /\ transport.headers["authorization"] = <<>>)

\* C15: with a credential configured, a call other than the handshake whose
\* headers cannot be had is rejected as missing and its handler does not
\* run; a handler runs only for the header "Bearer <credential>"; the
\* credential of a registered authentication stage is not empty, so
\* "Bearer " with an empty token is rejected.
C15_FailClosed ==
    /\ (\E i \in 1..Len(chain) : chain[i] = "auth.on_request") => API_KEY # <<>>
    /\ (AuthConfigured /\ context.method \notin {"initialize", "none"}) =>
          /\ (HeadersUnavailable /\ pc \in {"up", "done"}) =>
                /\ produced = McpError(-32001, MsgMissing)
                /\ ~HandlerInvoked
                /\ outbound = <<>>
          /\ HandlerInvoked => Presented = Some(BearerPrefix \o API_KEY)
          /\ (Presented = Some(BearerPrefix) /\ pc \in {"up", "done"}) =>
                (~HandlerInvoked /\ ~produced.ok)

\* a tool call outside an HTTP request was rejected as missing
C15_Witness ==
    /\ pc = "done" /\ API_KEY = K1 /\ ~transport.http
    /\ context.method = "tools/call"
    /\ response = McpError(-32001, MsgMissing) /\ ~HandlerInvoked

====
